---- MODULE Spec2Model ----
(***************************************************************************)
(* superqt.signal._signal: the Signal descriptor, the per-instance        *)
(* SignalInstance (connect / disconnect / emit / block), the process-wide *)
(* current emitter, and the signature helpers used by connect.            *)
(*                                                                         *)
(* A callable is a record [kind, self, name, params]:                      *)
(*   kind = "func"    a plain function (stored strongly, compared by       *)
(*                    identity);                                           *)
(*   kind = "method"  a bound method of receiver `self` (params exclude    *)
(*                    self, as inspect.signature reports them);            *)
(*   kind = "ref"     the normalised form (weakref.ref(self), name) that   *)
(*                    the slot list stores for a bound method;             *)
(*   kind = "object"  something that is not callable.                      *)
(* A parameter is [kind, default, annotation]: kind is one of the five     *)
(* inspect.Parameter kinds, default says whether it has one, annotation is *)
(* the set of classes it names ({} = unannotated, one class = that class,  *)
(* several = a Union).  A declared signature is the sequence of its        *)
(* parameters, each positional-only, without default, annotated with a    *)
(* class name.                                                             *)
(***************************************************************************)
EXTENDS Integers, Sequences, FiniteSets, TLC

VARIABLES
    signatures,       \* SignalInstance.signatures, per dispatcher
    slots,            \* SignalInstance._slots, per dispatcher: <<[cb, maxargs, id]>>
    is_blocked,       \* SignalInstance._is_blocked, per dispatcher
    current_emitter,  \* Signal._current_emitter (process-wide)
    alive,            \* which receiver objects are still alive
    stack,            \* the emit calls in progress, outermost first
    last,             \* the call that returned last, with its outcome
    nextId,           \* number of subscriptions appended so far, plus one
    work,             \* calls the running callbacks may still make
    guards,           \* SignalBlocker scopes entered and not yet left, innermost last
    _signal_instances, \* the WeakKeyDictionary of the descriptor: {[key, value]}
    _instance,        \* SignalInstance._instance, per dispatcher
    held,             \* owning instances the program still refers to
    gone,             \* owning instances that were collected
    types,            \* the arguments of Signal(...) each dispatcher's descriptor was
                      \* declared with
    unbound,          \* receivers whose attribute `m` was rebound to None
    seen,             \* history of blocking, kept by the suppression specification
    walk              \* one emit call seen from its for loop (loop specification)

(* The descriptor's instance map and the objects around it. *)
heap == <<_signal_instances, _instance, held, gone>>

vars == <<signatures, slots, is_blocked, current_emitter, alive, stack, last, nextId,
          work, guards, heap, types, unbound, seen, walk>>

-----------------------------------------------------------------------------
(* Bounds of the model. *)

MaxSlots == 3       \* longest subscription list explored
MaxConnects == 3    \* successful connects in one behaviour
MaxDepth == 2       \* emit calls nested inside one another
MaxArgs == 2        \* most arguments passed to emit
MaxWork == 1        \* calls made from inside running callbacks in one behaviour
MaxParams == 3      \* most parameters of a callback drawn by the arity specification
MaxSigParams == 2   \* most parameters of a signature drawn by the arity specification
MaxGuards == 2      \* SignalBlocker scopes open at once
MaxTyParams == 2    \* most parameters of a callback drawn by the typing specification
MaxDecl == 2        \* most arguments of Signal(...) drawn by the declaration specification

(* 10 ** 10 in the source; TLC's integers are 32 bit, so the model uses the
   largest power of ten they hold.  Only "larger than any argument count"
   matters to the slice args[:max_args]. *)
VAR_POSITIONAL_ARITY == 1000000000

None == "None"

Dispatchers == {"S1", "S2"}
Receivers == {"r1"}

Min(a, b) == IF a < b THEN a ELSE b

-----------------------------------------------------------------------------
(* Parameters and callables. *)

POSITIONAL_ONLY == "POSITIONAL_ONLY"
POSITIONAL_OR_KEYWORD == "POSITIONAL_OR_KEYWORD"
VAR_POSITIONAL == "VAR_POSITIONAL"
KEYWORD_ONLY == "KEYWORD_ONLY"
VAR_KEYWORD == "VAR_KEYWORD"

Param(k, d, a) == [kind |-> k, default |-> d, annotation |-> a]

Func(n, ps) == [kind |-> "func", self |-> None, name |-> n, params |-> ps]
Method(r, n, ps) == [kind |-> "method", self |-> r, name |-> n, params |-> ps]
NotCallable == [kind |-> "object", self |-> None, name |-> "obj", params |-> <<>>]

(* Every object passes for a callable. *)
AnythingCallable(slot) == TRUE

(* builtins.callable *)
callable(slot) == slot.kind \in {"func", "method"}

(* inspect.ismethod *)
ismethod(slot) == slot.kind = "method"

(* inspect.Signature(params): a signature is the sequence of its parameters;
   a parameter of a declared signature carries one class as its annotation. *)
Signature(params) == params

(* The parameters are made optional keyword-or-positional ones. *)
BuildOptional(tys) ==
    Signature([i \in DOMAIN tys |-> Param(POSITIONAL_OR_KEYWORD, TRUE, tys[i])])

(* Signal._build_signature: one POSITIONAL_ONLY parameter without default per
   type, in order. *)
_build_signature(tys) ==
    Signature([i \in DOMAIN tys |-> Param(POSITIONAL_ONLY, FALSE, tys[i])])

(* An argument of Signal(...): a class, a list or a tuple of classes, or a
   Signature object (items: its parameters). *)
Type(t) == [form |-> "type", type |-> t, items |-> <<>>]
List(tys) == [form |-> "list", type |-> None, items |-> tys]
Tuple(tys) == [form |-> "tuple", type |-> None, items |-> tys]
Sig(params) == [form |-> "Signature", type |-> None, items |-> params]

(* isinstance(t, (list, tuple, Signature)) *)
IsSpec(t) == t.form \in {"list", "tuple", "Signature"}

(* Signal.__init__: the signatures attribute it sets, or TypeError.  In the
   single-signature branch every argument becomes an annotation as it is; an
   argument that is not a class is named by its form. *)
__init__(args) ==
    IF args = <<>>
    THEN [raises |-> FALSE, signatures |-> <<Signature(<<>>)>>]
    ELSE IF ~IsSpec(args[1])
    THEN [raises |-> FALSE,
          signatures |-> <<_build_signature(
              [i \in DOMAIN args |->
                  IF args[i].form = "type" THEN args[i].type ELSE args[i].form])>>]
    ELSE IF \E i \in DOMAIN args : ~IsSpec(args[i])
    THEN [raises |-> TRUE, signatures |-> <<>>]
    ELSE [raises |-> FALSE,
          signatures |-> [i \in DOMAIN args |->
              IF args[i].form = "Signature" THEN Signature(args[i].items)
              ELSE _build_signature(args[i].items)]]

-----------------------------------------------------------------------------
(* _acceptable_posarg_range: (min, max) accepted positional arguments, or
   ValueError for a required KEYWORD_ONLY parameter.  The loop over
   sig.parameters.values() is folded from parameter i on. *)

RECURSIVE PosargLoop(_, _, _, _)
PosargLoop(params, i, required, optional) ==
    IF i > Len(params)
    THEN [raises |-> FALSE, min |-> required, max |-> required + optional]
    ELSE LET param == params[i] IN
         IF param.kind \in {POSITIONAL_ONLY, POSITIONAL_OR_KEYWORD}
         THEN IF ~param.default
              THEN PosargLoop(params, i + 1, required + 1, optional)
              ELSE PosargLoop(params, i + 1, required, optional + 1)
         ELSE IF param.kind = VAR_POSITIONAL
         THEN PosargLoop(params, i + 1, required, optional + VAR_POSITIONAL_ARITY)
         ELSE IF param.kind = KEYWORD_ONLY /\ ~param.default
         THEN [raises |-> TRUE, min |-> 0, max |-> 0]
         ELSE PosargLoop(params, i + 1, required, optional)

_acceptable_posarg_range(params) == PosargLoop(params, 1, 0, 0)

-----------------------------------------------------------------------------
(* _is_subclass and _parameter_types_match (used when check_types is on). *)

(* builtins.issubclass on the classes of the model: bool < int < object,
   str < object, and inspect.Parameter.empty, a class of its own. *)
issubclass(left, right) ==
    \/ left = right
    \/ right = "object"
    \/ left = "bool" /\ right = "int"

(* left is an annotation: one class, or the branches of a Union. *)
_is_subclass(left, right) == \E i \in left : issubclass(i, right)

(* zip(fsig.parameters.values(), spec.parameters.values()): the shorter of
   the two decides how many pairs are compared. *)
_parameter_types_match(params, spec) ==
    \A i \in 1..Min(Len(params), Len(spec)) :
        \/ params[i].annotation = {}
        \/ _is_subclass(params[i].annotation, spec[i].annotation)

-----------------------------------------------------------------------------
(* The subscription list. *)

(* _normalize_slot: a bound method becomes (weakref.ref(self), name). *)
_normalize_slot(slot) == IF ismethod(slot) THEN [slot EXCEPT !.kind = "ref"] ELSE slot

(* The argument is compared as given, without normalising it. *)
_slot_index_raw(list, slot) ==
    LET hits == {i \in 1..Len(list) : list[i].cb = slot}
    IN  IF hits = {} THEN -1
        ELSE (CHOOSE i \in hits : \A j \in hits : i <= j) - 1

(* obj == other for receivers: r2 is another object that compares equal to
   r1 (their class defines __eq__ by value); every other receiver is equal
   to itself only. *)
Value(r) == IF r = "r2" THEN "r1" ELSE r

(* weakref.ref.__eq__: while both referents are alive the referents are
   compared, otherwise the reference objects are (weakref.ref(obj) gives the
   same reference object for the same obj). *)
RefEq(a, b) == IF alive[a] /\ alive[b] THEN Value(a) = Value(b) ELSE a = b

(* s == normed: two (reference, name) tuples compare item by item, two
   functions by identity. *)
SlotEq(s, normed) ==
    IF s.kind = "ref" /\ normed.kind = "ref"
    THEN RefEq(s.self, normed.self) /\ s.name = normed.name
    ELSE s = normed

(* _slot_index: index (from 0) of the first stored slot equal to the
   normalised argument, -1 when there is none. *)
_slot_index(list, slot) ==
    LET normed == _normalize_slot(slot)
        hits == {i \in 1..Len(list) : SlotEq(list[i].cb, normed)}
    IN  IF hits = {} THEN -1
        ELSE (CHOOSE i \in hits : \A j \in hits : i <= j) - 1

(* __contains__ *)
__contains__(list, slot) == _slot_index(list, slot) >= 0

(* __len__ *)
__len__(list) == Len(list)

(* The entry found is left where it is. *)
keep(list, idx) == list

(* list.pop(idx), idx from 0 *)
pop(list, idx) == SubSeq(list, 1, idx) \o SubSeq(list, idx + 2, Len(list))

(* A list that grows at the head instead of the tail. *)
prepend(list, entry) == <<entry>> \o list

(* list.append *)
append(list, entry) == Append(list, entry)

-----------------------------------------------------------------------------
(* connect: the search for a matching signature. *)

(* sorted(self.signatures, key=lambda x: len(x.parameters), reverse=True):
   longest first, and stable (equal lengths keep their declared order).
   The result lists indices into sigs. *)
RECURSIVE SortedSpecs(_, _)
SortedSpecs(sigs, todo) ==
    IF todo = {} THEN <<>>
    ELSE LET first == CHOOSE i \in todo :
                          \A j \in todo :
                              \/ Len(sigs[i]) > Len(sigs[j])
                              \/ Len(sigs[i]) = Len(sigs[j]) /\ i <= j
         IN  <<first>> \o SortedSpecs(sigs, todo \ {first})

(* The comparison off by one: a callback needing exactly as many arguments
   as the signature has is turned away. *)
TooManyRequiredOffByOne(minargs, n_spec_params) == minargs >= n_spec_params

(* minargs > n_spec_params raises inside the try *)
TooManyRequired(minargs, n_spec_params) == minargs > n_spec_params

(* One pass of the body of the for loop: TRUE when it reaches `break`. *)
SpecAccepts(params, spec, check_types) ==
    LET range == _acceptable_posarg_range(params) IN
    /\ ~range.raises
    /\ ~TooManyRequired(range.min, Len(spec))
    /\ ~(check_types /\ ~_parameter_types_match(params, spec))

(* The for/else: index into sigs of the signature at which the loop breaks,
   0 when every signature raised (the else branch). *)
MatchedSpec(sigs, params, check_types) ==
    LET order == SortedSpecs(sigs, DOMAIN sigs)
        ok == {k \in DOMAIN order : SpecAccepts(params, sigs[order[k]], check_types)}
    IN  IF ok = {} THEN 0
        ELSE order[CHOOSE k \in ok : \A j \in ok : k <= j]

(* The parameter count of the matched signature is stored instead. *)
SpecParamCount(minargs, maxargs, n_spec_params) == n_spec_params

(* The arity stored with the slot: `maxargs`, as last assigned in the loop. *)
StoredMaxArgs(minargs, maxargs, n_spec_params) == maxargs

(* The literal compared against is "error". *)
RaisesOnError(unique) == unique = "error"

(* unique == "raise" *)
UniqueRaises(unique) == unique = "raise"

(* bool(unique): unique is False, True or a string *)
Truthy(unique) == unique # "False"

-----------------------------------------------------------------------------
(* Emit calls in progress.  A frame is one activation of emit:
     d         the dispatcher (self)
     args      the emitted arguments
     i         how many entries the list iterator of the for loop has yielded
     rem       the local list `rem`
     previous  `previous` of Signal._emitting
     mode      "iter": at the head of the for loop; "call": inside the callback
     running   the callable being run in mode "call"
   and, for stating properties only,
     start     the subscription list when the pass started
     was_alive which receivers were alive when the pass started
     touched   whether the list of d was changed since the pass started
     invoked   the calls made so far, each with the stored arity of its entry
               and the arguments passed: <<[id, cb, maxargs, args]>>
     removed   the subscriptions of d that disconnect calls removed since
               the pass started: {[id, ahead, invoked]}, ahead when the
               iterator had not yet come to its place in the list, invoked
               when the pass had called it *)

NoSlot == [kind |-> "none", self |-> None, name |-> None, params |-> <<>>]
NoPass == [d |-> None]
NoGuard == [target |-> None]

(* Instances of the class that owns the Signal.  o1 and o2 are unequal;
   o3 is another object that compares equal to o1 (the class defines __eq__
   and __hash__ by value, and o1 and o3 hold the same value). *)
Owners == {"o1", "o2", "o3"}

(* A SignalBlocker scope that is open:
     target  the dispatcher (SignalBlocker.target)
     depth   how many emit calls were in progress when it was entered
   and, for stating properties only,
     prior   the suppression flag of target when the scope was entered
     raw     whether block was called on target inside the scope by someone
             else (the program, or another scope being entered or left)
     emitted whether emit was called on target inside the scope *)
MarkRaw(gs, d) ==
    [k \in DOMAIN gs |-> IF gs[k].target = d THEN [gs[k] EXCEPT !.raw = TRUE] ELSE gs[k]]

MarkEmitted(gs, d) ==
    [k \in DOMAIN gs |-> IF gs[k].target = d THEN [gs[k] EXCEPT !.emitted = TRUE] ELSE gs[k]]

Top == stack[Len(stack)]

(* The emit calls in progress on dispatcher d note that its list changed. *)
Touch(st, d, changed) ==
    [k \in DOMAIN st |->
        IF st[k].d = d /\ changed THEN [st[k] EXCEPT !.touched = TRUE] ELSE st[k]]

(* The emit calls in progress on dispatcher d note the subscriptions that a
   disconnect call took from `before`, leaving `after`. *)
Note(st, d, before, after) ==
    [k \in DOMAIN st |->
        IF st[k].d # d THEN st[k]
        ELSE [st[k] EXCEPT !.removed = @ \cup
                 {[id |-> before[j].id, ahead |-> j > st[k].i,
                   invoked |-> \E c \in DOMAIN st[k].invoked :
                                   st[k].invoked[c].id = before[j].id] :
                  j \in {j \in DOMAIN before :
                            \A n \in DOMAIN after : after[n].id # before[j].id}}]]

(* No emit call is followed from its for loop. *)
NoWalk == [at |-> "none", d |-> None, rest |-> <<>>, running |-> NoSlot, args |-> <<>>]

(* The history of blocking, kept while seen.on:
     tagged  the ids of the subscriptions made while their dispatcher was blocked
     fresh   the dispatchers that were unblocked and on which emit has not
             been called since
     first   the depths of the emit calls in progress that were, each on its
             dispatcher, the first one after it was unblocked
     met     [depth, id]: the emit call in progress at that depth queued
             that subscription in rem
     left    the ids of the subscriptions that a pass had queued in rem when
             a callback's exception ended it, until a later pass returns
     owed    [depth, id]: the emit call in progress at that depth began with
             that subscription of `left` in its list *)
NoWatch == [on |-> FALSE, tagged |-> {}, fresh |-> {}, first |-> {}, met |-> {},
            left |-> {}, owed |-> {}]

Watched(new) == IF seen.on THEN new ELSE seen

(* after a call that may have changed the suppression flags *)
Flagged ==
    Watched([seen EXCEPT !.fresh = {d \in @ : ~is_blocked'[d]}
                             \cup {d \in DOMAIN is_blocked : is_blocked[d] /\ ~is_blocked'[d]}])

(* after an exception has ended the emit call at the top of the stack *)
Raised ==
    Watched([seen EXCEPT
        !.first = @ \ {Len(stack)},
        !.met = {o \in @ : o.depth # Len(stack)},
        !.left = @ \cup {o.id : o \in {o \in seen.met : o.depth = Len(stack)}},
        !.owed = {o \in @ : o.depth # Len(stack)}])

(* after the emit call at the top of the stack has returned *)
Returned ==
    Watched([seen EXCEPT
        !.first = @ \ {Len(stack)},
        !.met = {o \in @ : o.depth # Len(stack)},
        !.left = @ \ {o.id : o \in {o \in seen.owed : o.depth = Len(stack)}},
        !.owed = {o \in @ : o.depth # Len(stack)}])

(* Code outside emit, or the body of a running callback, may call anything;
   the calls made by callbacks use up the budget `work`. *)
CanCall ==
    IF stack = <<>> THEN work' = work
    ELSE Top.mode = "call" /\ work > 0 /\ work' = work - 1

(* `last` describes the step just taken: the call that returned (or the
   event) and its outcome; for a connect or disconnect its arguments and the
   list before it, for a connect the signature it matched, for an emit that
   ended the list as the for loop left it and the frame it ended with. *)
Quiet ==
    [op |-> "init", d |-> None, slot |-> NoSlot, check_types |-> FALSE,
     unique |-> "False", missing_ok |-> TRUE, result |-> "ok", msg |-> "",
     before |-> <<>>, spec |-> 0, pass |-> NoPass, guard |-> NoGuard,
     owner |-> None]

(* A bound method is a strong reference to its receiver: whoever passes
   obj.method to connect or disconnect holds obj alive. *)
Holds(slot) == slot.kind = "method" => alive[slot.self]

-----------------------------------------------------------------------------
(* SignalInstance.connect *)

connect(d, slot, check_types, unique) ==
    /\ CanCall
    /\ Holds(slot)
    /\ nextId <= MaxConnects
    /\ Len(slots[d]) < MaxSlots
    /\ LET before == slots[d]
           range == _acceptable_posarg_range(slot.params)
           spec == MatchedSpec(signatures[d], slot.params, check_types)
           called == [Quiet EXCEPT !.op = "connect", !.d = d, !.slot = slot,
                                   !.check_types = check_types, !.unique = unique,
                                   !.before = before]
       IN  IF ~callable(slot)
           THEN /\ last' = [called EXCEPT !.result = "TypeError",
                                          !.msg = "Cannot connect to non-callable object"]
                /\ UNCHANGED <<slots, nextId>>
           ELSE IF Truthy(unique) /\ __contains__(before, slot)
           THEN /\ last' = IF UniqueRaises(unique)
                           THEN [called EXCEPT !.result = "ValueError",
                                               !.msg = "Slot already connect"]
                           ELSE [called EXCEPT !.result = "return"]
                /\ UNCHANGED <<slots, nextId>>
           ELSE IF spec = 0
           THEN /\ last' = [called EXCEPT !.result = "ValueError",
                                          !.msg = "Cannot connect slot"]
                /\ UNCHANGED <<slots, nextId>>
           ELSE /\ slots' = [slots EXCEPT ![d] =
                       append(@, [cb |-> _normalize_slot(slot),
                                  maxargs |-> StoredMaxArgs(range.min, range.max,
                                                            Len(signatures[d][spec])),
                                  id |-> nextId])]
                /\ nextId' = nextId + 1
                /\ last' = [called EXCEPT !.spec = spec]
    /\ stack' = Touch(stack, d, slots'[d] # slots[d])
    /\ seen' = Watched([seen EXCEPT !.tagged =
                           IF is_blocked[d] /\ nextId' # nextId THEN @ \cup {nextId} ELSE @])
    /\ UNCHANGED <<types, walk, unbound, signatures, is_blocked, current_emitter, alive, guards, heap>>

-----------------------------------------------------------------------------
(* SignalInstance.disconnect; slot = NoSlot is the call without an argument. *)

(* The latest matching subscription is removed instead of the earliest. *)
DisconnectedLast(list, slot) ==
    LET hits == {i \in 1..Len(list) : list[i].cb = _normalize_slot(slot)}
    IN  IF hits = {} THEN list
        ELSE pop(list, (CHOOSE i \in hits : \A j \in hits : i >= j) - 1)

(* The list after disconnect(slot), slot given. *)
Disconnected(list, slot) ==
    LET idx == _slot_index(list, slot)
    IN  IF idx >= 0 THEN pop(list, idx) ELSE list

(* A missing slot is reported whatever missing_ok says. *)
AlwaysReported(idx, missing_ok) == idx < 0

(* elif not missing_ok: raise ValueError, reached when idx < 0 *)
NotConnected(idx, missing_ok) == idx < 0 /\ ~missing_ok

disconnect(d, slot, missing_ok) ==
    /\ CanCall
    /\ Holds(slot)
    /\ LET before == slots[d]
           called == [Quiet EXCEPT !.op = "disconnect", !.d = d, !.slot = slot,
                                   !.missing_ok = missing_ok, !.before = before]
       IN  /\ slots' = [slots EXCEPT ![d] =
                           IF slot = NoSlot THEN <<>> ELSE Disconnected(before, slot)]
           /\ last' = IF slot # NoSlot /\ NotConnected(_slot_index(before, slot), missing_ok)
                      THEN [called EXCEPT !.result = "ValueError",
                                          !.msg = "slot is not connected"]
                      ELSE called
    /\ stack' = Note(Touch(stack, d, slots'[d] # slots[d]), d, slots[d], slots'[d])
    /\ UNCHANGED <<types, walk, unbound, seen, signatures, is_blocked, current_emitter, alive, nextId, guards, heap>>

-----------------------------------------------------------------------------
(* SignalInstance.block *)

block(d, should_block) ==
    /\ CanCall
    /\ is_blocked' = [is_blocked EXCEPT ![d] = should_block]
    /\ guards' = MarkRaw(guards, d)
    /\ last' = [Quiet EXCEPT !.op = "block", !.d = d]
    /\ seen' = Flagged
    /\ UNCHANGED <<types, walk, unbound, signatures, slots, current_emitter, alive, stack, nextId, heap>>

-----------------------------------------------------------------------------
(* SignalInstance.blocked and SignalBlocker: `with d.blocked():` enters the
   scope with __enter__ and leaves it with __exit__, normally or because an
   exception travels through it (exc). *)

(* The scope stays blocked when it is left. *)
StillBlocked(prior) == TRUE

(* __exit__: self.target.block(False) *)
Released(prior) == FALSE

__enter__(d) ==
    /\ CanCall
    /\ Len(guards) < MaxGuards
    /\ is_blocked' = [is_blocked EXCEPT ![d] = TRUE]
    /\ guards' = Append(MarkRaw(guards, d),
                        [target |-> d, depth |-> Len(stack), prior |-> is_blocked[d],
                         raw |-> FALSE, emitted |-> FALSE])
    /\ last' = [Quiet EXCEPT !.op = "__enter__", !.d = d]
    /\ seen' = Flagged
    /\ UNCHANGED <<types, walk, unbound, signatures, slots, current_emitter, alive, stack, nextId, heap>>

__exit__(exc) ==
    /\ guards # <<>>
    /\ IF stack = <<>> THEN TRUE ELSE Top.mode = "call"
    /\ guards[Len(guards)].depth = Len(stack)
    /\ LET scope == guards[Len(guards)] IN
       /\ is_blocked' = [is_blocked EXCEPT ![scope.target] = Released(scope.prior)]
       /\ guards' = MarkRaw(SubSeq(guards, 1, Len(guards) - 1), scope.target)
       /\ last' = [Quiet EXCEPT !.op = "__exit__", !.d = scope.target,
                                !.result = IF exc THEN "raised" ELSE "ok",
                                !.guard = scope]
    /\ seen' = Flagged
    /\ UNCHANGED <<types, walk, unbound, signatures, slots, current_emitter, alive, stack, nextId, work, heap>>

-----------------------------------------------------------------------------
(* The last strong reference to receiver r is dropped and r is collected.
   A receiver whose method is running is held by that bound method. *)

del(r) ==
    /\ CanCall
    /\ alive[r]
    /\ \A k \in DOMAIN stack : stack[k].running.self # r
    /\ alive' = [alive EXCEPT ![r] = FALSE]
    /\ last' = [Quiet EXCEPT !.op = "del"]
    /\ UNCHANGED <<types, walk, unbound, seen, signatures, slots, is_blocked, current_emitter, stack, nextId,
                   guards, heap>>

(* `r.m = None`: the attribute the stored name refers to no longer resolves
   to a callable. *)
unbind(r) ==
    /\ CanCall
    /\ alive[r]
    /\ r \notin unbound
    /\ unbound' = unbound \cup {r}
    /\ last' = [Quiet EXCEPT !.op = "unbind"]
    /\ UNCHANGED <<types, walk, seen, signatures, slots, is_blocked, current_emitter, alive,
                   stack, nextId, guards, heap>>

-----------------------------------------------------------------------------
(* Signal._emitting, current_emitter, sender *)

(* on entry: previous, cls._current_emitter = cls._current_emitter, emitter *)
_emitting_enter(emitter) == emitter

(* A flat emitter attribute, cleared on exit. *)
FlatExit(current, previous) == None

(* No finally: the emitter is left as it is. *)
NoRestore(current, previous) == current

(* finally: cls._current_emitter = previous *)
_emitting_exit(current, previous) == previous

(* SignalInstance.instance *)
instance(d) == _instance[d]

(* Signal.sender: getattr(cls._current_emitter, "instance", None) *)
sender == IF current_emitter = None THEN None ELSE instance(current_emitter)

-----------------------------------------------------------------------------
(* SignalInstance.emit *)

(* Every emitted argument is passed on. *)
Unsliced(args, max_args) == args

(* args[:max_args] *)
Slice(args, max_args) == SubSeq(args, 1, Min(Len(args), max_args))

(* getattr(obj, method_name, None) on a live receiver: the bound method, or
   None (NoSlot) when the attribute was rebound to None; a function is
   called as stored. *)
Resolve(cb) ==
    IF cb.kind = "ref"
    THEN IF cb.self \in unbound THEN NoSlot ELSE [cb EXCEPT !.kind = "method"]
    ELSE cb

(* An emit that forgets the slots it queued. *)
KeepDead(list, rem, k) == list

(* for slot in rem: self.disconnect(slot) *)
RECURSIVE Prune(_, _, _)
Prune(list, rem, k) ==
    IF k > Len(rem) THEN list
    ELSE Prune(Disconnected(list, rem[k]), rem, k + 1)

(* The list iterator of the for loop: after yielding entry number i (the
   entry at index i, from 0) it stands at i + 1. *)
Advance(i) == i + 1

(* The for loop walks a copy of the list made when the pass started. *)
Snapshot(fr) == fr.start

(* `for (slot, max_args) in self._slots`: the iterator holds the list object
   itself and reads it as it is at each turn. *)
Iterated(fr) == slots[fr.d]

(* The iterator has another entry to yield: its index is below the length
   the list has now. *)
HasNext(fr) == fr.i < Len(Iterated(fr))

(* if self._is_blocked: return *)
_is_blocked(d) == is_blocked[d]

(* The call of emit up to the head of the for loop: returns at once when
   blocked, otherwise enters Signal._emitting(self). *)
emit(d, args) ==
    /\ CanCall
    /\ IF _is_blocked(d)
       THEN /\ last' = [Quiet EXCEPT !.op = "emit", !.d = d, !.result = "blocked",
                                     !.before = slots[d]]
            /\ UNCHANGED <<current_emitter, stack, seen>>
            /\ guards' = MarkEmitted(guards, d)
       ELSE /\ Len(stack) < MaxDepth
            /\ guards' = MarkEmitted(guards, d)
            /\ stack' = Append(stack,
                   [d |-> d, args |-> args, i |-> 0, rem |-> <<>>,
                    previous |-> current_emitter, mode |-> "iter",
                    running |-> NoSlot, start |-> slots[d], was_alive |-> alive,
                    touched |-> FALSE, invoked |-> <<>>, removed |-> {}])
            /\ current_emitter' = _emitting_enter(d)
            /\ last' = [Quiet EXCEPT !.op = "emit_enter", !.d = d]
            /\ seen' = Watched([seen EXCEPT
                   !.fresh = @ \ {d},
                   !.first = IF d \in seen.fresh THEN @ \cup {Len(stack) + 1} ELSE @,
                   !.owed = @ \cup {[depth |-> Len(stack) + 1, id |-> slots[d][k].id] :
                                       k \in {k \in DOMAIN slots[d] :
                                                 slots[d][k].id \in seen.left}}])
    /\ UNCHANGED <<types, walk, unbound, signatures, slots, is_blocked, alive, nextId, heap>>

(* One turn of `for (slot, max_args) in self._slots`: the list iterator
   yields entry number i of the list as it is now.  A dead weak reference,
   or one whose method no longer resolves, is queued in rem; otherwise the callback is called with the sliced
   arguments, and a call with fewer arguments than the callback requires
   raises TypeError, which leaves emit through the finally of _emitting. *)
emit_next ==
    /\ stack # <<>>
    /\ Top.mode = "iter"
    /\ HasNext(Top)
    /\ LET fr == Top
           n == Len(stack)
           entry == Iterated(fr)[fr.i + 1]
           cb == Resolve(entry.cb)
           passed == Slice(fr.args, entry.maxargs)
       IN  IF entry.cb.kind = "ref" /\ (~alive[entry.cb.self] \/ cb = NoSlot)
           THEN /\ stack' = [stack EXCEPT ![n].i = Advance(fr.i),
                                          ![n].rem = Append(fr.rem, entry.cb)]
                /\ last' = [Quiet EXCEPT !.op = "skip", !.d = fr.d]
                /\ seen' = Watched([seen EXCEPT
                       !.met = @ \cup {[depth |-> n, id |-> entry.id]}])
                /\ UNCHANGED current_emitter
           ELSE IF Len(passed) < _acceptable_posarg_range(cb.params).min
           THEN /\ stack' = SubSeq(stack, 1, n - 1)
                /\ current_emitter' = _emitting_exit(current_emitter, fr.previous)
                /\ last' = [Quiet EXCEPT !.op = "emit", !.d = fr.d,
                                         !.result = "raised", !.msg = "TypeError",
                                         !.before = slots[fr.d],
                                         !.pass = [fr EXCEPT !.i = Advance(fr.i)]]
                /\ seen' = Raised
           ELSE /\ stack' = [stack EXCEPT
                       ![n].i = Advance(fr.i), ![n].mode = "call", ![n].running = cb,
                       ![n].invoked = Append(fr.invoked,
                           [id |-> entry.id, cb |-> cb, maxargs |-> entry.maxargs,
                            args |-> passed])]
                /\ last' = [Quiet EXCEPT !.op = "call", !.d = fr.d]
                /\ UNCHANGED <<current_emitter, seen>>
    /\ UNCHANGED <<types, walk, unbound, signatures, slots, is_blocked, alive, nextId, work, guards, heap>>

(* Every `with` block entered by the running callback has been left: a
   callback cannot return or let an exception out from inside one. *)
ScopesLeft == IF guards = <<>> THEN TRUE ELSE guards[Len(guards)].depth < Len(stack)

(* The running callback returns. *)
callback_return ==
    /\ stack # <<>>
    /\ Top.mode = "call"
    /\ ScopesLeft
    /\ stack' = [stack EXCEPT ![Len(stack)].mode = "iter",
                              ![Len(stack)].running = NoSlot]
    /\ last' = [Quiet EXCEPT !.op = "callback_return", !.d = Top.d]
    /\ UNCHANGED <<types, walk, unbound, seen, signatures, slots, is_blocked, current_emitter, alive, nextId, work,
                   guards, heap>>

(* The running callback raises: emit does not catch, the finally of
   _emitting restores the emitter, and nothing is pruned. *)
callback_raise ==
    /\ stack # <<>>
    /\ Top.mode = "call"
    /\ ScopesLeft
    /\ stack' = SubSeq(stack, 1, Len(stack) - 1)
    /\ current_emitter' = _emitting_exit(current_emitter, Top.previous)
    /\ last' = [Quiet EXCEPT !.op = "emit", !.d = Top.d, !.result = "raised",
                             !.msg = "callback", !.before = slots[Top.d],
                             !.pass = Top]
    /\ seen' = Raised
    /\ UNCHANGED <<types, walk, unbound, signatures, slots, is_blocked, alive, nextId, work, guards, heap>>

(* The list iterator is exhausted: the with block is left, every slot queued
   in rem is disconnected, and emit returns. *)
emit_return ==
    /\ stack # <<>>
    /\ Top.mode = "iter"
    /\ ~HasNext(Top)
    /\ slots' = [slots EXCEPT ![Top.d] = Prune(@, Top.rem, 1)]
    /\ stack' = Touch(SubSeq(stack, 1, Len(stack) - 1), Top.d,
                      slots'[Top.d] # slots[Top.d])
    /\ current_emitter' = _emitting_exit(current_emitter, Top.previous)
    /\ last' = [Quiet EXCEPT !.op = "emit", !.d = Top.d, !.before = slots[Top.d],
                             !.pass = Top]
    /\ seen' = Returned
    /\ UNCHANGED <<types, walk, unbound, signatures, is_blocked, alive, nextId, work, guards, heap>>

-----------------------------------------------------------------------------
(* The program explored: two dispatchers made directly, S1 =
   SignalInstance((Signature of int,), o1) and S2 = SignalInstance((Signature(),), o2),
   the plain functions f() and g(x), and the bound method m(self, x=None) of
   a receiver. *)

f == Func("f", <<>>)
g == Func("g", <<Param(POSITIONAL_OR_KEYWORD, FALSE, {})>>)
m(r) == Method(r, "m", <<Param(POSITIONAL_OR_KEYWORD, TRUE, {})>>)

Callables == {f, g} \cup {m(r) : r \in Receivers}

Uniques == {"False", "True", "raise", "error"}

ArgTuples == {[i \in 1..n |-> 41 + i] : n \in 0..MaxArgs}

Init ==
    /\ types = [d \in Dispatchers |-> IF d = "S1" THEN <<Type("int")>> ELSE <<>>]
    /\ signatures = [d \in Dispatchers |-> __init__(types[d]).signatures]
    /\ slots = [d \in Dispatchers |-> <<>>]
    /\ is_blocked = [d \in Dispatchers |-> FALSE]
    /\ current_emitter = None
    /\ alive = [r \in Receivers |-> TRUE]
    /\ stack = <<>>
    /\ last = Quiet
    /\ nextId = 1
    /\ work = MaxWork
    /\ guards = <<>>
    /\ _signal_instances = {}
    /\ _instance = [d \in Dispatchers |-> IF d = "S1" THEN "o1" ELSE "o2"]
    /\ held = Owners
    /\ gone = {}
    /\ unbound = {}
    /\ seen = NoWatch
    /\ walk = NoWalk

Next ==
    \/ \E d \in Dispatchers, slot \in Callables \cup {NotCallable}, unique \in Uniques :
           connect(d, slot, FALSE, unique)
    \/ \E d \in Dispatchers, slot \in Callables \cup {NoSlot}, missing_ok \in BOOLEAN :
           disconnect(d, slot, missing_ok)
    \/ \E d \in Dispatchers, should_block \in BOOLEAN : block(d, should_block)
    \/ \E r \in Receivers : del(r)
    \/ \E d \in Dispatchers, args \in ArgTuples : emit(d, args)
    \/ emit_next
    \/ callback_return
    \/ callback_raise
    \/ emit_return

Spec == Init /\ [][Next]_vars

-----------------------------------------------------------------------------
(* The blocking specification: the same two dispatchers, with f and g
   connected at will, emit(42), raw block calls and SignalBlocker scopes
   entered and left by the program and by running callbacks. *)

BlkNext ==
    \/ \E d \in Dispatchers, slot \in {f, g} : connect(d, slot, FALSE, "False")
    \/ \E d \in Dispatchers, should_block \in BOOLEAN : block(d, should_block)
    \/ \E d \in Dispatchers : __enter__(d)
    \/ \E exc \in BOOLEAN : __exit__(exc)
    \/ \E d \in Dispatchers : emit(d, <<42>>)
    \/ emit_next
    \/ callback_return
    \/ callback_raise
    \/ emit_return

BlkSpec == Init /\ [][BlkNext]_vars

-----------------------------------------------------------------------------
(* Signal.__get__ and the life of the owning instances. *)

(* What a dictionary compares keys by: hash(o) and o == other. *)
KeyOf(o) == IF o = "o3" THEN "o1" ELSE o

(* The entries found by d.setdefault(instance, ...): those whose key is
   equal to instance. *)
Found(o) == {e \in _signal_instances : KeyOf(e.key) = KeyOf(o)}

(* Dispatchers held as values of the instance map. *)
Made == {e.value : e \in _signal_instances}

(* Signal.__get__(instance, owner): instance None is the access on the
   class.  Otherwise the entry of an equal key is returned when there is
   one (the SignalInstance built for the call is dropped), and when there is
   none the new SignalInstance(self.signatures, instance) is stored. *)
__get__(o) ==
    /\ stack = <<>>
    /\ o \in held \cup {None}
    /\ IF o = None
       THEN /\ last' = [Quiet EXCEPT !.op = "__get__", !.result = "descriptor"]
            /\ UNCHANGED heap
       ELSE IF Found(o) # {}
       THEN /\ last' = [Quiet EXCEPT !.op = "__get__", !.owner = o,
                                     !.d = (CHOOSE e \in Found(o) : TRUE).value]
            /\ UNCHANGED heap
       ELSE /\ Dispatchers \ Made # {}
            /\ LET d == IF "S1" \notin Made THEN "S1" ELSE "S2" IN
               /\ _signal_instances' = _signal_instances \cup {[key |-> o, value |-> d]}
               /\ _instance' = [_instance EXCEPT ![d] = o]
               /\ last' = [Quiet EXCEPT !.op = "__get__", !.owner = o, !.d = d]
            /\ UNCHANGED <<held, gone>>
    /\ UNCHANGED <<types, walk, unbound, seen, signatures, slots, is_blocked, current_emitter, alive, stack, nextId,
                   work, guards>>

(* The program drops its last reference to owner o. *)
drop(o) ==
    /\ stack = <<>>
    /\ o \in held
    /\ held' = held \ {o}
    /\ last' = [Quiet EXCEPT !.op = "drop", !.owner = o]
    /\ UNCHANGED <<types, walk, unbound, seen, signatures, slots, is_blocked, current_emitter, alive, stack, nextId,
                   work, guards, _signal_instances, _instance, gone>>

(* Strong references: the class holds the descriptor, the descriptor its
   dictionary, a WeakKeyDictionary holds its values (not its keys), and a
   SignalInstance holds its instance in self._instance. *)
StronglyReachable(o) ==
    \/ o \in held
    \/ \E e \in _signal_instances : _instance[e.value] = o

(* A garbage collection: every owner that is not strongly reachable is
   collected, and the WeakKeyDictionary drops the entries of dead keys. *)
gc ==
    /\ stack = <<>>
    /\ LET dead == {o \in Owners \ gone : ~StronglyReachable(o)} IN
       /\ gone' = gone \cup dead
       /\ _signal_instances' = {e \in _signal_instances : e.key \notin dead}
    /\ last' = [Quiet EXCEPT !.op = "gc"]
    /\ UNCHANGED <<types, walk, unbound, seen, signatures, slots, is_blocked, current_emitter, alive, stack, nextId,
                   work, guards, _instance, held>>

(* The owner specification: one channel declared Signal(int) on a class
   with three instances; the program reaches a dispatcher only through an
   instance it holds. *)
OwnInit ==
    /\ types = [d \in Dispatchers |-> <<Type("int")>>]
    /\ signatures = [d \in Dispatchers |-> __init__(types[d]).signatures]
    /\ slots = [d \in Dispatchers |-> <<>>]
    /\ is_blocked = [d \in Dispatchers |-> FALSE]
    /\ current_emitter = None
    /\ alive = [r \in Receivers |-> TRUE]
    /\ stack = <<>>
    /\ last = Quiet
    /\ nextId = 1
    /\ work = MaxWork
    /\ guards = <<>>
    /\ _signal_instances = {}
    /\ _instance = [d \in Dispatchers |-> None]
    /\ held = Owners
    /\ gone = {}
    /\ unbound = {}
    /\ seen = NoWatch
    /\ walk = NoWalk

OwnNext ==
    \/ \E o \in Owners \cup {None} : __get__(o)
    \/ \E o \in held, slot \in {f} \cup {m(r) : r \in Receivers} :
           /\ Found(o) # {}
           /\ connect((CHOOSE e \in Found(o) : TRUE).value, slot, FALSE, "False")
    \/ \E o \in held, should_block \in BOOLEAN :
           /\ Found(o) # {}
           /\ block((CHOOSE e \in Found(o) : TRUE).value, should_block)
    \/ \E r \in Receivers : del(r)
    \/ \E o \in Owners : drop(o)
    \/ gc

OwnSpec == OwnInit /\ [][OwnNext]_vars

-----------------------------------------------------------------------------
(* The arity specification: connect applied once to a callback of any shape
   of up to MaxParams parameters, on a freshly made dispatcher S1 whose
   channel declares one or two signatures of up to MaxSigParams parameters. *)

Kinds == {POSITIONAL_ONLY, POSITIONAL_OR_KEYWORD, VAR_POSITIONAL, KEYWORD_ONLY,
          VAR_KEYWORD}

Rank(kind) ==
    CASE kind = POSITIONAL_ONLY -> 1
      [] kind = POSITIONAL_OR_KEYWORD -> 2
      [] kind = VAR_POSITIONAL -> 3
      [] kind = KEYWORD_ONLY -> 4
      [] kind = VAR_KEYWORD -> 5

(* The parameter lists Python accepts in a def. *)
ValidParams(ps) ==
    /\ \A i, j \in DOMAIN ps : i < j => Rank(ps[i].kind) <= Rank(ps[j].kind)
    /\ \A i, j \in DOMAIN ps :
           i < j /\ ps[i].kind \in {VAR_POSITIONAL, VAR_KEYWORD} => ps[j].kind # ps[i].kind
    /\ \A i \in DOMAIN ps : ps[i].kind \in {VAR_POSITIONAL, VAR_KEYWORD} => ~ps[i].default
    /\ \A i, j \in DOMAIN ps :
           i < j /\ Rank(ps[i].kind) <= 2 /\ Rank(ps[j].kind) <= 2 /\ ps[i].default
               => ps[j].default

Annotations == {{}, {"int"}}

Params == [kind : Kinds, default : BOOLEAN, annotation : Annotations]

ParamLists == {ps \in UNION {[1..n -> Params] : n \in 0..MaxParams} : ValidParams(ps)}

ArCallables == {Func("h", ps) : ps \in ParamLists}

Types == {"int", "str"}

Signatures == UNION {[1..n -> Types] : n \in 0..MaxSigParams}

SignatureSets == {<<a>> : a \in Signatures} \cup {<<a, b>> : a, b \in Signatures}

ArInit ==
    /\ types \in {[d \in Dispatchers |->
                      IF d = "S1" THEN [k \in DOMAIN sigs |-> List(sigs[k])]
                                  ELSE <<List(<<>>)>>] : sigs \in SignatureSets}
    /\ signatures = [d \in Dispatchers |-> __init__(types[d]).signatures]
    /\ slots = [d \in Dispatchers |-> <<>>]
    /\ is_blocked = [d \in Dispatchers |-> FALSE]
    /\ current_emitter = None
    /\ alive = [r \in Receivers |-> TRUE]
    /\ stack = <<>>
    /\ last = Quiet
    /\ nextId = 1
    /\ work = MaxWork
    /\ guards = <<>>
    /\ _signal_instances = {}
    /\ _instance = [d \in Dispatchers |-> IF d = "S1" THEN "o1" ELSE "o2"]
    /\ held = Owners
    /\ gone = {}
    /\ unbound = {}
    /\ seen = NoWatch
    /\ walk = NoWalk

ArNext ==
    \E slot \in ArCallables, check_types \in BOOLEAN :
        /\ last = Quiet
        /\ connect("S1", slot, check_types, "False")

ArSpec == ArInit /\ [][ArNext]_vars

-----------------------------------------------------------------------------
(* The typing specification: connect applied once, with check_types on or
   off, to a callback of up to MaxTyParams annotated or unannotated
   parameters, on a freshly made dispatcher whose channel declares one or
   two signatures of up to MaxSigParams slots.  A slot is typed int or str,
   or untyped: a Signature given to Signal(...) may hold a Parameter without
   annotation, whose annotation is then Parameter.empty ("empty"). *)

TyAnnotations == {{}, {"int"}, {"bool"}, {"str"}, {"int", "str"}}

TyParams == [kind : {POSITIONAL_OR_KEYWORD, KEYWORD_ONLY}, default : BOOLEAN,
             annotation : TyAnnotations]

TyParamLists == {ps \in UNION {[1..n -> TyParams] : n \in 0..MaxTyParams} : ValidParams(ps)}

TyCallables == {Func("h", ps) : ps \in TyParamLists}

TyTypes == {"int", "str", "empty"}

TySlots == {Param(POSITIONAL_ONLY, FALSE, t) : t \in TyTypes}

TySignatures == UNION {[1..n -> TySlots] : n \in 0..MaxSigParams}

TySignatureSets == {<<a>> : a \in TySignatures} \cup {<<a, b>> : a, b \in TySignatures}

TyInit ==
    /\ types \in {[d \in Dispatchers |->
                      IF d = "S1" THEN [k \in DOMAIN sigs |-> Sig(sigs[k])]
                                  ELSE <<Sig(<<>>)>>] : sigs \in TySignatureSets}
    /\ signatures = [d \in Dispatchers |-> __init__(types[d]).signatures]
    /\ slots = [d \in Dispatchers |-> <<>>]
    /\ is_blocked = [d \in Dispatchers |-> FALSE]
    /\ current_emitter = None
    /\ alive = [r \in Receivers |-> TRUE]
    /\ stack = <<>>
    /\ last = Quiet
    /\ nextId = 1
    /\ work = MaxWork
    /\ guards = <<>>
    /\ _signal_instances = {}
    /\ _instance = [d \in Dispatchers |-> IF d = "S1" THEN "o1" ELSE "o2"]
    /\ held = Owners
    /\ gone = {}
    /\ unbound = {}
    /\ seen = NoWatch
    /\ walk = NoWalk

TyNext ==
    \E slot \in TyCallables, check_types \in BOOLEAN :
        /\ last = Quiet
        /\ connect("S1", slot, check_types, "False")

TySpec == TyInit /\ [][TyNext]_vars

-----------------------------------------------------------------------------
(* The declaration specification: `s = Signal(...)` declared with up to
   MaxDecl arguments, each a class, a list or tuple of classes, or a
   Signature; the declarations that raise TypeError make no descriptor.  The
   dispatcher S1 of that descriptor is then used: f is connected and
   disconnected, the dispatcher blocked and unblocked, and emit() called,
   by the program and by running callbacks. *)

DeclArgs ==
    {Type("int"), Type("str"), List(<<>>), List(<<"int">>), Tuple(<<"str">>),
     Tuple(<<"int", "str">>), Sig(<<Param(POSITIONAL_ONLY, FALSE, "int")>>)}

Declarations == UNION {[1..n -> DeclArgs] : n \in 0..MaxDecl}

DeclInit ==
    /\ types \in {[d \in Dispatchers |-> IF d = "S1" THEN args ELSE <<>>] :
                      args \in {a \in Declarations : ~__init__(a).raises}}
    /\ signatures = [d \in Dispatchers |-> __init__(types[d]).signatures]
    /\ slots = [d \in Dispatchers |-> <<>>]
    /\ is_blocked = [d \in Dispatchers |-> FALSE]
    /\ current_emitter = None
    /\ alive = [r \in Receivers |-> TRUE]
    /\ stack = <<>>
    /\ last = Quiet
    /\ nextId = 1
    /\ work = MaxWork
    /\ guards = <<>>
    /\ _signal_instances = {}
    /\ _instance = [d \in Dispatchers |-> IF d = "S1" THEN "o1" ELSE "o2"]
    /\ held = Owners
    /\ gone = {}
    /\ unbound = {}
    /\ seen = NoWatch
    /\ walk = NoWalk

DeclNext ==
    \/ connect("S1", f, FALSE, "False")
    \/ disconnect("S1", f, TRUE)
    \/ \E should_block \in BOOLEAN : block("S1", should_block)
    \/ emit("S1", <<>>)
    \/ emit_next
    \/ callback_return
    \/ emit_return

DeclSpec == DeclInit /\ [][DeclNext]_vars

-----------------------------------------------------------------------------
(* The lifecycle specification: dispatcher S1 with the function f and the
   method m of two receivers that compare equal, r1 and r2.  Subscriptions
   are connected, disconnected one at a time or all at once, receivers are
   collected or have their attribute m rebound to None, and emit(42) is
   called, by the program and by running callbacks. *)

LifeReceivers == {"r1", "r2"}

LifeInit ==
    /\ types = [d \in Dispatchers |-> IF d = "S1" THEN <<Type("int")>> ELSE <<>>]
    /\ signatures = [d \in Dispatchers |-> __init__(types[d]).signatures]
    /\ slots = [d \in Dispatchers |-> <<>>]
    /\ is_blocked = [d \in Dispatchers |-> FALSE]
    /\ current_emitter = None
    /\ alive = [r \in LifeReceivers |-> TRUE]
    /\ stack = <<>>
    /\ last = Quiet
    /\ nextId = 1
    /\ work = MaxWork
    /\ guards = <<>>
    /\ _signal_instances = {}
    /\ _instance = [d \in Dispatchers |-> IF d = "S1" THEN "o1" ELSE "o2"]
    /\ held = Owners
    /\ gone = {}
    /\ unbound = {}
    /\ seen = NoWatch
    /\ walk = NoWalk

LifeNext ==
    \/ \E slot \in {f} \cup {m(r) : r \in LifeReceivers} : connect("S1", slot, FALSE, "False")
    \/ \E slot \in {NoSlot} \cup {m(r) : r \in LifeReceivers} : disconnect("S1", slot, TRUE)
    \/ \E r \in LifeReceivers : del(r)
    \/ \E r \in LifeReceivers : unbind(r)
    \/ emit("S1", <<42>>)
    \/ emit_next
    \/ callback_return
    \/ callback_raise
    \/ emit_return

LifeSpec == LifeInit /\ [][LifeNext]_vars

-----------------------------------------------------------------------------
(* The pass specification: dispatcher S1 with the functions f and g, which
   the program and the running callbacks connect and disconnect; a pass of
   emit(42) may see one call more from its callbacks than in the main
   specification, so that a callback can connect one subscription and
   disconnect another. *)

PassInit ==
    /\ types = [d \in Dispatchers |-> IF d = "S1" THEN <<Type("int")>> ELSE <<>>]
    /\ signatures = [d \in Dispatchers |-> __init__(types[d]).signatures]
    /\ slots = [d \in Dispatchers |-> <<>>]
    /\ is_blocked = [d \in Dispatchers |-> FALSE]
    /\ current_emitter = None
    /\ alive = [r \in Receivers |-> TRUE]
    /\ stack = <<>>
    /\ last = Quiet
    /\ nextId = 1
    /\ work = MaxWork + 1
    /\ guards = <<>>
    /\ _signal_instances = {}
    /\ _instance = [d \in Dispatchers |-> IF d = "S1" THEN "o1" ELSE "o2"]
    /\ held = Owners
    /\ gone = {}
    /\ unbound = {}
    /\ seen = NoWatch
    /\ walk = NoWalk

PassNext ==
    \/ \E slot \in {f, g} : connect("S1", slot, FALSE, "False")
    \/ \E slot \in {f, g, NoSlot} : disconnect("S1", slot, TRUE)
    \/ emit("S1", <<42>>)
    \/ emit_next
    \/ callback_return
    \/ callback_raise
    \/ emit_return

PassSpec == PassInit /\ [][PassNext]_vars

-----------------------------------------------------------------------------
(* The suppression specification: dispatcher S1 with the functions f and g
   and the method m of a receiver that may be collected; S1 is blocked and
   unblocked, callbacks are connected and disconnected and emit(42) is
   called, by the program and by running callbacks.  The history of blocking
   is kept. *)

SupInit ==
    /\ types = [d \in Dispatchers |-> IF d = "S1" THEN <<Type("int")>> ELSE <<>>]
    /\ signatures = [d \in Dispatchers |-> __init__(types[d]).signatures]
    /\ slots = [d \in Dispatchers |-> <<>>]
    /\ is_blocked = [d \in Dispatchers |-> FALSE]
    /\ current_emitter = None
    /\ alive = [r \in Receivers |-> TRUE]
    /\ stack = <<>>
    /\ last = Quiet
    /\ nextId = 1
    /\ work = MaxWork
    /\ guards = <<>>
    /\ _signal_instances = {}
    /\ _instance = [d \in Dispatchers |-> IF d = "S1" THEN "o1" ELSE "o2"]
    /\ held = Owners
    /\ gone = {}
    /\ unbound = {}
    /\ seen = [NoWatch EXCEPT !.on = TRUE]
    /\ walk = NoWalk

SupNext ==
    \/ \E slot \in Callables : connect("S1", slot, FALSE, "False")
    \/ \E slot \in Callables : disconnect("S1", slot, TRUE)
    \/ \E should_block \in BOOLEAN : block("S1", should_block)
    \/ \E r \in Receivers : del(r)
    \/ emit("S1", <<42>>)
    \/ emit_next
    \/ callback_return
    \/ callback_raise
    \/ emit_return

SupSpec == SupInit /\ [][SupNext]_vars

-----------------------------------------------------------------------------
(* The loop specification: one call of emit(42) on dispatcher S1, followed
   from its for loop.  The program first connects f, g and the method m; then
   emit is called once, and the callbacks it invokes return and may call
   connect on S1, but neither emit nor disconnect.

   Whether the for loop takes another turn depends only on the entries of
   self._slots from the iterator's index on, self._slots[index:]: a turn
   takes the first of them, connect appends one at their end, and the loop
   is left when none remains.  From the call of emit on, `walk.rest` holds
   exactly these entries, and `slots` keeps the list as it was when emit was
   called; an entry of walk.rest is the stored pair (callback, max_args).
   The pass is followed as long as the callbacks keep it going, so no count
   of the entries already passed is kept. *)

(* emit is called by the program: it returns at once when blocked, otherwise
   the iterator stands before the first entry of the list. *)
walk_emit(d, args) ==
    /\ walk.at = "none"
    /\ stack = <<>>
    /\ walk' = IF _is_blocked(d)
               THEN [NoWalk EXCEPT !.at = "returned", !.d = d, !.args = args]
               ELSE [at |-> "iter", d |-> d, running |-> NoSlot, args |-> args,
                     rest |-> [k \in DOMAIN slots[d] |->
                                  [cb |-> slots[d][k].cb,
                                   maxargs |-> slots[d][k].maxargs]]]
    /\ UNCHANGED <<types, unbound, seen, signatures, slots, is_blocked, current_emitter,
                   alive, stack, last, nextId, work, guards, heap>>

(* One turn of the for loop: the iterator yields the first entry not yet
   passed; a dead or unresolved reference is passed over (queued in rem),
   a call with too few arguments raises out of emit, and otherwise the
   callback is called. *)
walk_next ==
    /\ walk.at = "iter"
    /\ walk.rest # <<>>
    /\ LET entry == Head(walk.rest)
           cb == Resolve(entry.cb)
           passed == Slice(walk.args, entry.maxargs)
       IN  walk' = IF entry.cb.kind = "ref" /\ (~alive[entry.cb.self] \/ cb = NoSlot)
                   THEN [walk EXCEPT !.rest = Tail(@)]
                   ELSE IF Len(passed) < _acceptable_posarg_range(cb.params).min
                   THEN [walk EXCEPT !.rest = Tail(@), !.at = "raised"]
                   ELSE [walk EXCEPT !.rest = Tail(@), !.at = "call", !.running = cb]
    /\ UNCHANGED <<types, unbound, seen, signatures, slots, is_blocked, current_emitter,
                   alive, stack, last, nextId, work, guards, heap>>

(* The running callback calls connect(slot) on the emitting dispatcher and
   the call succeeds: the entry is appended at the end of the list. *)
walk_connect(slot) ==
    /\ walk.at = "call"
    /\ Holds(slot)
    /\ callable(slot)
    /\ Len(walk.rest) < MaxSlots
    /\ LET range == _acceptable_posarg_range(slot.params)
           spec == MatchedSpec(signatures[walk.d], slot.params, FALSE)
       IN  /\ spec # 0
           /\ walk' = [walk EXCEPT !.rest =
                          append(@, [cb |-> _normalize_slot(slot),
                                     maxargs |-> StoredMaxArgs(range.min, range.max,
                                                     Len(signatures[walk.d][spec]))])]
    /\ UNCHANGED <<types, unbound, seen, signatures, slots, is_blocked, current_emitter,
                   alive, stack, last, nextId, work, guards, heap>>

(* The running callback returns. *)
walk_callback_return ==
    /\ walk.at = "call"
    /\ walk' = [walk EXCEPT !.at = "iter", !.running = NoSlot]
    /\ UNCHANGED <<types, unbound, seen, signatures, slots, is_blocked, current_emitter,
                   alive, stack, last, nextId, work, guards, heap>>

(* The iterator is exhausted: the with block is left, rem is pruned and emit
   returns. *)
walk_return ==
    /\ walk.at = "iter"
    /\ walk.rest = <<>>
    /\ walk' = [walk EXCEPT !.at = "returned"]
    /\ UNCHANGED <<types, unbound, seen, signatures, slots, is_blocked, current_emitter,
                   alive, stack, last, nextId, work, guards, heap>>

WalkInit ==
    /\ types = [d \in Dispatchers |-> IF d = "S1" THEN <<Type("int")>> ELSE <<>>]
    /\ signatures = [d \in Dispatchers |-> __init__(types[d]).signatures]
    /\ slots = [d \in Dispatchers |-> <<>>]
    /\ is_blocked = [d \in Dispatchers |-> FALSE]
    /\ current_emitter = None
    /\ alive = [r \in Receivers |-> TRUE]
    /\ stack = <<>>
    /\ last = Quiet
    /\ nextId = 1
    /\ work = MaxWork
    /\ guards = <<>>
    /\ _signal_instances = {}
    /\ _instance = [d \in Dispatchers |-> IF d = "S1" THEN "o1" ELSE "o2"]
    /\ held = Owners
    /\ gone = {}
    /\ unbound = {}
    /\ seen = NoWatch
    /\ walk = NoWalk

WalkNext ==
    \/ walk.at = "none" /\ \E slot \in Callables : connect("S1", slot, FALSE, "False")
    \/ walk_emit("S1", <<42>>)
    \/ walk_next
    \/ \E slot \in Callables : walk_connect(slot)
    \/ walk_callback_return
    \/ walk_return

(* emit is synchronous: once called, the interpreter keeps running the for
   loop, so a turn that can be taken is taken and the loop is left when the
   iterator is exhausted; and every callback invocation returns. *)
WalkSpec ==
    /\ WalkInit
    /\ [][WalkNext]_vars
    /\ WF_vars(walk_next)
    /\ WF_vars(walk_callback_return)
    /\ WF_vars(walk_return)

-----------------------------------------------------------------------------
(* Vocabulary of the properties. *)

(* An emit call has just returned normally, having walked its list. *)
EmitDone == last.op = "emit" /\ last.result = "ok"

(* No callback changed the list of the emitting dispatcher during the pass
   that just ended. *)
Untouched == ~last.pass.touched

InvokedIds(pass) == [k \in DOMAIN pass.invoked |-> pass.invoked[k].id]

TimesInvoked(pass, id) == Cardinality({k \in DOMAIN pass.invoked : pass.invoked[k].id = id})

(* The stored callback refers to a receiver that is gone under `living`. *)
DeadUnder(cb, living) == cb.kind = "ref" /\ ~living[cb.self]

Increasing(seq) == \A j, k \in DOMAIN seq : j < k => seq[j] < seq[k]

(* The frames of the emit calls in progress and of the one that just ended. *)
Passes == {stack[k] : k \in DOMAIN stack} \cup (IF last.op = "emit" /\ last.pass # NoPass THEN {last.pass} ELSE {})

Count(list, slot) == Cardinality({i \in DOMAIN list : list[i].cb = _normalize_slot(slot)})

(* C1: an emit on an unblocked dispatcher during which no callback raised or
   changed the subscription list has called the live subscriptions in the
   order of their connection: the ids called are increasing, every entry of
   the list was either called or skipped as dead, and every entry whose
   receiver is still alive was called. *)
C1_EmitInConnectOrder ==
    EmitDone /\ Untouched =>
        LET pass == last.pass IN
        /\ Increasing(InvokedIds(pass))
        /\ Increasing([k \in DOMAIN pass.start |-> pass.start[k].id])
        /\ Len(pass.invoked) + Len(pass.rem) = Len(pass.start)
        /\ \A k \in DOMAIN pass.start :
               ~DeadUnder(pass.start[k].cb, alive)
                   => TimesInvoked(pass, pass.start[k].id) = 1

C1_Witness ==
    /\ EmitDone /\ Untouched
    /\ Len(last.pass.invoked) = 3
    /\ last.before # <<>>
    /\ last.pass.invoked[1].cb # last.pass.invoked[2].cb
    /\ last.pass.invoked[2].cb # last.pass.invoked[3].cb
    /\ last.pass.invoked[1].cb # last.pass.invoked[3].cb

(* The emitted arguments are enough for every subscription the pass started
   with, so that no call of the pass can fail for want of an argument. *)
ArgsSuffice(pass) ==
    \A k \in DOMAIN pass.start :
        Len(pass.args) >= _acceptable_posarg_range(pass.start[k].cb.params).min

(* C2: when an emit in which no callback raised returns, every subscription
   that was in the list when the pass started, is still in the list the loop
   left (it was not disconnected during the pass) and has a live receiver has
   been called exactly once by that emit. *)
C2_EveryLiveSubscriberRuns ==
    EmitDone /\ ArgsSuffice(last.pass) =>
        \A k \in DOMAIN last.pass.start :
            LET entry == last.pass.start[k] IN
            entry.id \in {last.before[j].id : j \in DOMAIN last.before}
                /\ ~DeadUnder(entry.cb, alive)
                => TimesInvoked(last.pass, entry.id) = 1

(* The subscriptions of the list the pass started with whose receiver was
   already gone when it started. *)
DeadAtStart(pass) ==
    {k \in DOMAIN pass.start : DeadUnder(pass.start[k].cb, pass.was_alive)}

(* C3 as claimed: whenever emit is called on a list holding a subscription
   whose receiver has been destroyed, the call does not raise, does not call
   that subscription, and on return the subscription is absent from the
   list. *)
C3_DeadPrunedByNextEmit ==
    last.op = "emit" =>
        /\ last.result = "blocked" =>
               \A k \in DOMAIN last.before : ~DeadUnder(last.before[k].cb, alive)
        /\ last.result # "blocked" /\ DeadAtStart(last.pass) # {} =>
               /\ last.result = "ok"
               /\ \A k \in DeadAtStart(last.pass) :
                      /\ TimesInvoked(last.pass, last.pass.start[k].id) = 0
                      /\ ~__contains__(slots[last.d], last.pass.start[k].cb)

(* C3, amended: no pass ever calls a subscription whose receiver was gone
   when the pass started.  When an emit on an unblocked dispatcher returns
   without a callback having raised, it has removed one equal subscription
   for each dead subscription its pass met; and if no callback changed the
   list during the pass, the pass met every dead subscription, so none is
   left (membership false, length down by their number) and every
   subscription with a live receiver was called, in list order. *)
C3_DeadNeverCalledAndPruned ==
    /\ \A pass \in Passes :
           \A k \in DeadAtStart(pass) : TimesInvoked(pass, pass.start[k].id) = 0
    /\ EmitDone =>
           \A k \in DOMAIN last.pass.rem :
               LET met == Cardinality({j \in DOMAIN last.pass.rem :
                                          last.pass.rem[j] = last.pass.rem[k]})
                   had == Count(last.before, last.pass.rem[k])
               IN  Count(slots[last.d], last.pass.rem[k]) =
                       IF had >= met THEN had - met ELSE 0
    /\ EmitDone /\ Untouched =>
           /\ \A k \in DeadAtStart(last.pass) :
                  ~__contains__(slots[last.d], last.pass.start[k].cb)
           /\ __len__(slots[last.d]) = Len(last.pass.start) - Len(last.pass.rem)
           /\ Len(last.pass.rem) >= Cardinality(DeadAtStart(last.pass))
           /\ Increasing(InvokedIds(last.pass))
           /\ \A k \in DOMAIN last.pass.start :
                  ~DeadUnder(last.pass.start[k].cb, alive)
                      => TimesInvoked(last.pass, last.pass.start[k].id) = 1

C3_Witness ==
    /\ EmitDone /\ Untouched
    /\ DeadAtStart(last.pass) # {}
    /\ last.pass.invoked # <<>>
    /\ Len(slots[last.d]) < Len(last.pass.start)

(* C5: every call made by emit passes exactly the first k emitted arguments,
   k the smaller of the number of emitted arguments and the arity stored
   with the subscription; and on the channel declared (int,), with f()
   connected before g(x), an emit(42) that has called both subscriptions
   called f() and then g(42). *)
C5_ArgsTruncatedToStoredArity ==
    /\ \A pass \in Passes :
           \A k \in DOMAIN pass.invoked :
               LET call == pass.invoked[k]
                   n == IF Len(pass.args) <= call.maxargs THEN Len(pass.args)
                        ELSE call.maxargs
               IN  call.args = [j \in 1..n |-> pass.args[j]]
    /\ \A pass \in Passes :
           /\ pass.d = "S1"
           /\ pass.args = <<42>>
           /\ [k \in DOMAIN pass.start |-> pass.start[k].cb] = <<f, g>>
           /\ InvokedIds(pass) = [k \in DOMAIN pass.start |-> pass.start[k].id]
           => /\ pass.invoked[1].cb = f /\ pass.invoked[1].args = <<>>
              /\ pass.invoked[2].cb = g /\ pass.invoked[2].args = <<42>>

C5_Witness ==
    /\ EmitDone /\ Untouched
    /\ last.d = "S1"
    /\ last.pass.args = <<42>>
    /\ [k \in DOMAIN last.pass.invoked |-> last.pass.invoked[k].cb] = <<f, g>>
    /\ [k \in DOMAIN last.pass.invoked |-> last.pass.invoked[k].args] = <<<<>>, <<42>>>>

(* C7: the emitter context is a stack.  While emit calls are in progress
   the current emitter is the dispatcher of the innermost one, each call
   remembers the dispatcher of the call around it (none for the outermost),
   and so when a nested emit has returned or raised the current emitter is
   again the dispatcher of the call around it. *)
C7_EmitterIsAStack ==
    /\ stack # <<>> => current_emitter = Top.d
    /\ \A k \in DOMAIN stack :
           stack[k].previous = IF k = 1 THEN None ELSE stack[k - 1].d
    /\ last.op = "emit" /\ last.result # "blocked" /\ stack # <<>> =>
           /\ last.pass.previous = Top.d
           /\ current_emitter = Top.d

C7_Witness ==
    /\ last.op = "emit" /\ last.result = "raised"
    /\ Len(stack) = 1
    /\ last.d = "S2"
    /\ last.pass.invoked # <<>>
    /\ current_emitter = "S1"

(* C8: when no emit call is in progress, current_emitter() and sender() are
   none, whether the last emit returned, raised or was blocked; while one is
   in progress, sender() is the owning instance of the current emitter. *)
C8_NoEmitterOutsideEmit ==
    /\ stack = <<>> => current_emitter = None /\ sender = None
    /\ stack # <<>> =>
           /\ current_emitter \in Dispatchers
           /\ sender = instance(Top.d)

C8_Witness ==
    /\ stack = <<>>
    /\ last.op = "emit" /\ last.result = "raised" /\ last.msg = "callback"
    /\ current_emitter = None

(* A connect that found its callable already connected while asked for
   uniqueness. *)
MetDuplicate ==
    /\ last.op = "connect"
    /\ callable(last.slot)
    /\ Truthy(last.unique)
    /\ \E k \in DOMAIN last.before : last.before[k].cb = _normalize_slot(last.slot)

(* C9 as claimed: connect(cb, unique="error") with cb already connected
   fails with the duplicate error and leaves the list unchanged. *)
C9_UniqueErrorRaises ==
    MetDuplicate /\ last.unique = "error" =>
        /\ last.result = "ValueError"
        /\ slots[last.d] = last.before

(* C9, amended: connect(cb, unique="raise") with cb already connected fails
   with ValueError ("Slot already connect") and leaves the list unchanged;
   with any other true value of unique, the string "error" included, it
   returns silently, also leaving the list unchanged. *)
C9_UniqueRaiseRaises ==
    MetDuplicate =>
        /\ slots[last.d] = last.before
        /\ last.unique = "raise" =>
               last.result = "ValueError" /\ last.msg = "Slot already connect"
        /\ last.unique # "raise" => last.result = "return"

C9_Witness ==
    /\ MetDuplicate
    /\ last.unique = "raise"
    /\ last.result = "ValueError"
    /\ slots[last.d] = last.before
    /\ Len(last.before) = 2

(* C10: connect(cb, unique=True) is idempotent.  Called while cb is not
   connected it leaves exactly one subscription for cb (or fails on the
   signature and leaves none); called while cb is connected it raises nothing
   and leaves the list as it was. *)
C10_UniqueTrueIdempotent ==
    last.op = "connect" /\ last.unique = "True" /\ callable(last.slot) =>
        IF Count(last.before, last.slot) = 0
        THEN /\ last.result \in {"ok", "ValueError"}
             /\ last.result = "ok" =>
                    /\ Count(slots[last.d], last.slot) = 1
                    /\ SubSeq(slots[last.d], 1, Len(last.before)) = last.before
             /\ last.result = "ValueError" =>
                    last.msg = "Cannot connect slot" /\ slots[last.d] = last.before
        ELSE /\ last.result = "return"
             /\ slots[last.d] = last.before

C10_Witness ==
    /\ last.op = "connect" /\ last.unique = "True"
    /\ last.slot.kind = "method"
    /\ last.result = "return"
    /\ Count(slots[last.d], last.slot) = 1
    /\ Len(slots[last.d]) = 2

-----------------------------------------------------------------------------
(* Properties of connect's signature check, stated on the parameter list of
   the callable, independently of the loop of _acceptable_posarg_range. *)

Positional(ps) == {i \in DOMAIN ps : ps[i].kind \in {POSITIONAL_ONLY, POSITIONAL_OR_KEYWORD}}

RequiredPositional(ps) == Cardinality({i \in Positional(ps) : ~ps[i].default})

OptionalPositional(ps) == Cardinality({i \in Positional(ps) : ps[i].default})

HasVarPositional(ps) == \E i \in DOMAIN ps : ps[i].kind = VAR_POSITIONAL

HasRequiredKeywordOnly(ps) == \E i \in DOMAIN ps : ps[i].kind = KEYWORD_ONLY /\ ~ps[i].default

(* A connect of a callable that was not cut short by the uniqueness test. *)
Validated == last.op = "connect" /\ callable(last.slot) /\ last.result # "return"
                 /\ last.msg # "Slot already connect"

(* C4: with check_types off, connect succeeds exactly when the callback has
   no required keyword-only parameter and some declared signature has at
   least as many parameters as the callback has required positional ones;
   otherwise it fails with ValueError, and the list is unchanged. *)
C4_ConnectsIffArityFits ==
    Validated /\ ~last.check_types =>
        LET ps == last.slot.params
            sigs == signatures[last.d]
            fits == /\ ~HasRequiredKeywordOnly(ps)
                    /\ \E k \in DOMAIN sigs : Len(sigs[k]) >= RequiredPositional(ps)
        IN  /\ last.result = "ok" <=> fits
            /\ last.result = "ok" =>
                   /\ Len(slots[last.d]) = Len(last.before) + 1
                   /\ slots[last.d][Len(slots[last.d])].cb = _normalize_slot(last.slot)
            /\ last.result # "ok" =>
                   /\ last.result = "ValueError" /\ last.msg = "Cannot connect slot"
                   /\ slots[last.d] = last.before

C4_Witness ==
    /\ Validated /\ ~last.check_types
    /\ types[last.d] = <<List(<<"int", "str">>)>>
    /\ RequiredPositional(last.slot.params) = 3
    /\ last.result = "ValueError"

(* C6 as claimed: after a successful connect the arity stored with the new
   subscription is the parameter count of the signature the callback
   matched. *)
C6_StoresMatchedSignatureCount ==
    Validated /\ last.result = "ok" =>
        slots[last.d][Len(slots[last.d])].maxargs = Len(signatures[last.d][last.spec])

(* C6, amended: after a successful connect the arity stored with the new
   subscription is the largest number of positional arguments the callback
   itself accepts - its required plus its optional positional parameters,
   and 10 ** 10 more when it has *args - whichever signature it matched.
   It is never less than the callback's required count, and it exceeds the
   matched signature's parameter count whenever the callback takes more
   optional parameters than the signature declares. *)
C6_StoresCallbackMaxArity ==
    Validated /\ last.result = "ok" =>
        LET ps == last.slot.params
            stored == slots[last.d][Len(slots[last.d])].maxargs
        IN  /\ stored = RequiredPositional(ps) + OptionalPositional(ps)
                        + (IF HasVarPositional(ps) THEN VAR_POSITIONAL_ARITY ELSE 0)
            /\ stored >= RequiredPositional(ps)
            /\ last.spec \in DOMAIN signatures[last.d]
            /\ Len(signatures[last.d][last.spec]) >= RequiredPositional(ps)

C6_Witness ==
    /\ Validated /\ last.result = "ok"
    /\ types[last.d] = <<List(<<"int">>)>>
    /\ last.slot.params = <<>>
    /\ slots[last.d][1].maxargs = 0

-----------------------------------------------------------------------------
(* disconnect *)

(* disconnect(slot) with a slot has just returned or raised. *)
DisconnectedSlot == last.op = "disconnect" /\ last.slot # NoSlot

(* Position (from 1) of the earliest entry of list equal to slot. *)
FirstMatch(list, slot) ==
    CHOOSE k \in DOMAIN list :
        /\ list[k].cb = _normalize_slot(slot)
        /\ \A j \in 1..(k - 1) : list[j].cb # _normalize_slot(slot)

(* list without the entry at position k *)
Without(list, k) ==
    [i \in 1..(Len(list) - 1) |-> IF i < k THEN list[i] ELSE list[i + 1]]

(* C11 as stated: after disconnect(cb), `cb in dispatcher` is false in every
   state, cb connected more than once included. *)
C11_DisconnectedNotContained ==
    DisconnectedSlot => ~__contains__(slots[last.d], last.slot)

(* C11: after disconnect(cb), `cb in dispatcher` is false exactly when cb
   was connected at most once before the call; when it was connected twice
   or more, a copy remains and the membership test is still true. *)
C11_NotContainedUnlessDuplicated ==
    DisconnectedSlot =>
        (__contains__(slots[last.d], last.slot) <=> Count(last.before, last.slot) >= 2)

C11_Witness ==
    /\ DisconnectedSlot
    /\ Count(last.before, last.slot) = 1
    /\ Len(last.before) >= 2
    /\ ~__contains__(slots[last.d], last.slot)

(* C12: disconnect(cb) with cb connected n >= 1 times removes the earliest
   entry equal to cb and nothing else: n - 1 copies remain and every other
   entry keeps its place in the order.  disconnect() without an argument
   empties the list and does not fail, on an empty list too. *)
C12_RemovesEarliestMatchOnly ==
    /\ DisconnectedSlot /\ Count(last.before, last.slot) >= 1 =>
           /\ slots[last.d] = Without(last.before, FirstMatch(last.before, last.slot))
           /\ Count(slots[last.d], last.slot) = Count(last.before, last.slot) - 1
           /\ last.result = "ok"
    /\ last.op = "disconnect" /\ last.slot = NoSlot =>
           /\ __len__(slots[last.d]) = 0
           /\ last.result = "ok"

C12_Witness ==
    /\ DisconnectedSlot
    /\ Len(last.before) = 3
    /\ last.before[1].cb = _normalize_slot(last.slot)
    /\ last.before[2].cb # _normalize_slot(last.slot)
    /\ last.before[3].cb = _normalize_slot(last.slot)
    /\ slots[last.d] = <<last.before[2], last.before[3]>>

(* C13: disconnect(cb) when no entry equals cb leaves the list as it was;
   it returns normally when missing_ok is true and raises ValueError ("slot
   is not connected") when missing_ok is false.  disconnect raises in no
   other case. *)
C13_MissingSlot ==
    /\ DisconnectedSlot /\ Count(last.before, last.slot) = 0 =>
           /\ slots[last.d] = last.before
           /\ last.missing_ok => last.result = "ok"
           /\ ~last.missing_ok =>
                  last.result = "ValueError" /\ last.msg = "slot is not connected"
    /\ last.op = "disconnect" /\ last.result # "ok" =>
           /\ last.slot # NoSlot
           /\ Count(last.before, last.slot) = 0
           /\ ~last.missing_ok

C13_Witness ==
    /\ DisconnectedSlot
    /\ last.result = "ValueError"
    /\ ~last.missing_ok
    /\ last.before # <<>>
    /\ slots[last.d] = last.before

-----------------------------------------------------------------------------
(* Exceptions *)

(* An emit has just been ended by an exception raised in a callback. *)
CallbackRaised == last.op = "emit" /\ last.result = "raised" /\ last.msg = "callback"

(* Position in list of the entry with this id, 0 when it is not there. *)
PositionOf(list, id) ==
    IF \E k \in DOMAIN list : list[k].id = id
    THEN CHOOSE k \in DOMAIN list : list[k].id = id
    ELSE 0

(* C16: when a callback raises during an emit whose arguments suffice for
   every subscription, the emit ends there: the raising
   call is the last call of the pass, so nothing after it is invoked, and
   every subscription that stood before the raising one when emit was called,
   is still connected and has a live receiver has been invoked exactly
   once. *)
C16_FailFastAfterAllEarlier ==
    CallbackRaised /\ ArgsSuffice(last.pass) =>
        LET pass == last.pass
            raiser == pass.invoked[Len(pass.invoked)]
            at == PositionOf(pass.start, raiser.id)
        IN  /\ pass.invoked # <<>>
            /\ \A k \in DOMAIN pass.start :
                   k > at /\ at > 0 => TimesInvoked(pass, pass.start[k].id) = 0
            /\ \A k \in DOMAIN pass.start :
                   /\ k < at
                   /\ PositionOf(last.before, pass.start[k].id) > 0
                   /\ ~DeadUnder(pass.start[k].cb, alive)
                   => TimesInvoked(pass, pass.start[k].id) = 1

(* C20: connect given an object that is not callable raises TypeError, and
   a connect that raises (TypeError for a non-callable, ValueError for an
   incompatible signature or for a duplicate under unique="raise") changes
   neither the subscription lists, nor the suppression flags, nor the
   current emitter. *)
C20_FailingConnectIsLocal ==
    [][ /\ last'.op = "connect" /\ last'.slot.kind = "object"
            => last'.result = "TypeError"
        /\ last'.op = "connect" /\ last'.result \in {"TypeError", "ValueError"}
            => /\ slots' = slots
               /\ is_blocked' = is_blocked
               /\ current_emitter' = current_emitter ]_vars

C20_Witness ==
    /\ last.op = "connect"
    /\ last.result = "TypeError"
    /\ last.slot = NotCallable
    /\ last.before # <<>>
    /\ slots[last.d] = last.before
    /\ current_emitter # None

-----------------------------------------------------------------------------
(* blocked() scopes *)

(* The scope was entered on an unblocked dispatcher and nobody else called
   block on its target inside it. *)
Clean(scope) == ~scope.prior /\ ~scope.raw

(* C14: while a scope entered on an unblocked dispatcher is open, and no
   other block call was made on the dispatcher inside it, the dispatcher is
   blocked, no emit begun inside the scope is walking its list, and an emit
   on it that just returned returned at once without a call.  When such a
   scope has been left, by an exception or not, the dispatcher is unblocked;
   and emit returns at once only on a blocked dispatcher. *)
C14_GuardBlocksThenReleases ==
    /\ \A k \in DOMAIN guards :
           Clean(guards[k]) =>
               /\ is_blocked[guards[k].target]
               /\ \A j \in DOMAIN stack :
                      j > guards[k].depth => stack[j].d # guards[k].target
               /\ last.op = "emit" /\ last.d = guards[k].target =>
                      last.result = "blocked" /\ last.pass = NoPass
    /\ last.op = "__exit__" /\ Clean(last.guard) => ~is_blocked[last.d]
    /\ last.op = "emit" /\ last.result = "blocked" => is_blocked[last.d]

C14_Witness ==
    /\ last.op = "__exit__"
    /\ last.result = "raised"
    /\ Clean(last.guard)
    /\ last.guard.emitted
    /\ slots[last.d] # <<>>
    /\ ~is_blocked[last.d]

(* C15: when a scope is left, the suppression flag of its target is again
   what it was when the scope was entered. *)
C15_ReleaseRestoresPrior ==
    last.op = "__exit__" => is_blocked[last.d] = last.guard.prior

-----------------------------------------------------------------------------
(* check_types *)

(* The subtype relation between the classes drawn: bool is a subclass of
   int, and every class of itself. *)
Subtype(left, right) == left = right \/ (left = "bool" /\ right = "int")

(* The callback's arity fits the signature. *)
ArityFits(ps, spec) == ~HasRequiredKeywordOnly(ps) /\ Len(spec) >= RequiredPositional(ps)

(* Positions of a signature that are paired with a parameter of the
   callback. *)
Paired(ps, spec) == {i \in DOMAIN ps : i <= Len(spec)}

(* Parameter i of the callback and slot i of the signature are both typed
   and the parameter's type, or every branch of its union, is no subtype of
   the slot's type. *)
Mismatch(ps, spec, i) ==
    /\ ps[i].annotation # {}
    /\ spec[i].annotation # "empty"
    /\ \A branch \in ps[i].annotation : ~Subtype(branch, spec[i].annotation)

(* C19: with check_types on, (a) a connect that succeeds matched a signature
   with which every annotated positional parameter of the callback agrees,
   position by position (its type, or one branch of its union, is a subtype
   of the slot's type, or the slot is untyped); (b) a connect that is turned
   away was turned away by every signature its arity fits because of a
   parameter and a slot that are both typed and disagree, an untyped
   parameter or an untyped slot never being the cause; and (c) with
   check_types off, connect succeeds exactly when the arity fits some
   signature. *)
C19_TypesCheckedPositionwise ==
    Validated =>
        LET ps == last.slot.params
            sigs == signatures[last.d]
        IN  /\ last.check_types /\ last.result = "ok" =>
                   \A i \in Positional(ps) \cap Paired(ps, sigs[last.spec]) :
                       ~Mismatch(ps, sigs[last.spec], i)
            /\ last.check_types /\ last.result # "ok" =>
                   \A k \in DOMAIN sigs :
                       ArityFits(ps, sigs[k]) =>
                           \E i \in Paired(ps, sigs[k]) : Mismatch(ps, sigs[k], i)
            /\ ~last.check_types =>
                   (last.result = "ok" <=> \E k \in DOMAIN sigs : ArityFits(ps, sigs[k]))

-----------------------------------------------------------------------------
(* The descriptor and the owning instances *)

(* C17: an access on an instance returns that instance's own dispatcher,
   the one the instance map keeps under that instance, and never the
   dispatcher of another instance, so that nothing done through one
   instance shows through another; the map keeps one entry per instance;
   the access on the class returns the descriptor and no dispatcher. *)
C17_OneDispatcherPerInstance ==
    /\ last.op = "__get__" /\ last.owner # None =>
           /\ instance(last.d) = last.owner
           /\ [key |-> last.owner, value |-> last.d] \in _signal_instances
           /\ \A e \in _signal_instances : e.key # last.owner => e.value # last.d
    /\ \A e1, e2 \in _signal_instances : e1.key = e2.key => e1 = e2
    /\ last.op = "__get__" /\ last.owner = None =>
           last.result = "descriptor" /\ last.d = None

(* C18: after a collection, every owner the program no longer refers to has
   been collected and has no entry in the instance map; and a subscription
   to a bound method holds its receiver weakly. *)
C18_OwnersNotKeptAlive ==
    /\ last.op = "gc" =>
           \A o \in Owners \ held :
               /\ o \in gone
               /\ \A e \in _signal_instances : e.key # o
    /\ \A d \in Dispatchers : \A k \in DOMAIN slots[d] : slots[d][k].cb.kind # "method"

-----------------------------------------------------------------------------
(* C21: a Signal declared without arguments has exactly one signature, with
   no parameters; declared with n classes it has exactly one signature, of n
   positional parameters without default annotated with those classes in
   order; declared with k lists or tuples of classes it has exactly k
   signatures, the j-th built in that way from the j-th list; and this stays
   so whatever connect, disconnect, emit and block calls are made later. *)
BuiltFrom(sig, tys) ==
    /\ Len(sig) = Len(tys)
    /\ \A i \in DOMAIN sig :
           /\ sig[i].kind \in {POSITIONAL_ONLY, POSITIONAL_OR_KEYWORD}
           /\ ~sig[i].default
           /\ sig[i].annotation = tys[i]

C21_DeclaredSignatures ==
    \A d \in Dispatchers :
        LET args == types[d]
            sigs == signatures[d]
        IN  /\ args = <<>> => Len(sigs) = 1 /\ sigs[1] = <<>>
            /\ args # <<>> /\ (\A i \in DOMAIN args : args[i].form = "type")
                   => /\ Len(sigs) = 1
                      /\ BuiltFrom(sigs[1], [i \in DOMAIN args |-> args[i].type])
            /\ args # <<>> /\ (\A i \in DOMAIN args : args[i].form \in {"list", "tuple"})
                   => /\ Len(sigs) = Len(args)
                      /\ \A j \in DOMAIN args : BuiltFrom(sigs[j], args[j].items)

(* Signal([int], (int, str)): f was connected twice and an emit that invoked
   it has returned. *)
C21_Witness ==
    /\ types["S1"] = <<List(<<"int">>), Tuple(<<"int", "str">>)>>
    /\ EmitDone
    /\ last.d = "S1"
    /\ last.pass.invoked # <<>>
    /\ Len(slots["S1"]) = 2

-----------------------------------------------------------------------------
(* The callback stored in a subscription can still be called: a function,
   or a method whose receiver is alive and whose attribute resolves. *)
Live(cb) == cb.kind = "func" \/ (alive[cb.self] /\ cb.self \notin unbound)

(* Subscription k of dispatcher d is no longer in its list after the step. *)
Leaves(d, k) == \A j \in DOMAIN slots'[d] : slots'[d][j].id # slots[d][k].id

(* C22: a subscription leaves the list only in a disconnect call or in the
   prune step of an emit pass that ran to completion, and the prune step
   removes only subscriptions whose receiver is gone or whose method is
   missing: never one whose receiver is alive and whose method resolves; a
   subscription whose receiver was destroyed stays until then. *)
C22_SubscriptionLifecycle ==
    [][\A d \in Dispatchers : \A k \in DOMAIN slots[d] :
          Leaves(d, k) =>
              \/ last'.op = "disconnect" /\ last'.d = d
              \/ /\ last'.op = "emit" /\ last'.result = "ok" /\ last'.d = d
                 /\ ~Live(slots[d][k].cb)]_vars

-----------------------------------------------------------------------------
(* C23: in every emission pass, under way or just ended, a subscription that
   a disconnect call removed while the pass had not yet come to it is never
   invoked by that pass, and a subscription that was removed after the pass
   had invoked it stays invoked exactly once. *)
C23_DisconnectDuringPass ==
    \A pass \in Passes : \A x \in pass.removed :
        /\ x.ahead => TimesInvoked(pass, x.id) = 0
        /\ x.invoked => TimesInvoked(pass, x.id) = 1

(* A pass has returned during which one subscription was disconnected before
   the pass came to it and another after the pass had invoked it. *)
C23_Witness ==
    /\ EmitDone
    /\ \E x \in last.pass.removed : x.ahead
    /\ \E x \in last.pass.removed : x.invoked

-----------------------------------------------------------------------------
(* The ids of the subscriptions in a list. *)
Ids(list) == {list[k].id : k \in DOMAIN list}

(* C24: a successful connect appends the subscription at the end of the
   list; and when an emit pass has returned, every subscription that was
   connected to the emitting dispatcher during the pass and is still
   connected, its callback callable, was invoked in that pass, after every
   invocation of a subscription that was present when the pass started. *)
C24_ConnectedDuringPassInvoked ==
    /\ last.op = "connect" /\ last.result = "ok"
           => slots[last.d] = last.before \o <<slots[last.d][Len(slots[last.d])]>>
    /\ EmitDone =>
           \A k \in DOMAIN last.before :
               LET new == last.before[k] IN
               new.id \notin Ids(last.pass.start) /\ Live(new.cb)
                   => \E c \in DOMAIN last.pass.invoked :
                          /\ last.pass.invoked[c].id = new.id
                          /\ \A b \in DOMAIN last.pass.invoked :
                                 last.pass.invoked[b].id \in Ids(last.pass.start) => b < c

-----------------------------------------------------------------------------
(* Suppression *)

(* The step is a call of emit on d (not the return of one begun earlier). *)
EmitCalled(d) ==
    /\ last'.d = d
    /\ \/ last'.op = "emit_enter"
       \/ last'.op = "emit" /\ Len(stack') = Len(stack)

(* emit on a blocked dispatcher returns at once: no pass begins, nothing is
   invoked or pruned, the list and the current emitter stay as they are. *)
BlockedEmitIsNoOp ==
    \A d \in Dispatchers :
        is_blocked[d] /\ EmitCalled(d) =>
            /\ last'.result = "blocked"
            /\ UNCHANGED <<slots, current_emitter, stack, is_blocked, alive>>

(* block changes the suppression flag of its dispatcher and nothing else. *)
BlockChangesFlagOnly ==
    last'.op = "block" =>
        /\ UNCHANGED <<slots, current_emitter, stack, alive, signatures>>
        /\ \A d \in Dispatchers \ {last'.d} : is_blocked'[d] = is_blocked[d]

(* connect appends and disconnect removes the earliest match, blocked or
   not; membership and length report the list, blocked or not. *)
ListCallsIgnoreFlag ==
    /\ last'.op = "connect" =>
           LET d == last'.d IN
           /\ last'.result = "ok"
           /\ Len(slots'[d]) = Len(slots[d]) + 1
           /\ SubSeq(slots'[d], 1, Len(slots[d])) = slots[d]
           /\ slots'[d][Len(slots'[d])].cb = _normalize_slot(last'.slot)
    /\ last'.op = "disconnect" =>
           LET d == last'.d IN
           slots'[d] = IF Count(slots[d], last'.slot) >= 1
                       THEN Without(slots[d], FirstMatch(slots[d], last'.slot))
                       ELSE slots[d]
    /\ \A d \in Dispatchers, slot \in Callables :
           /\ __contains__(slots[d], slot) <=> Count(slots[d], slot) >= 1
           /\ __len__(slots[d]) = Len(slots[d])

(* The first emit after d was unblocked has returned: every subscription
   made while d was blocked that was connected before the pass and still is,
   its callback callable, was invoked by the pass. *)
FirstEmitReaches ==
    /\ last'.op = "emit" /\ last'.result = "ok"
    /\ Len(stack') < Len(stack)
    /\ Len(stack) \in seen.first
    => \A k \in DOMAIN last'.before :
           LET entry == last'.before[k] IN
           /\ entry.id \in seen.tagged
           /\ entry.id \in Ids(last'.pass.start)
           /\ Live(entry.cb)
           => TimesInvoked(last'.pass, entry.id) >= 1

(* C25: an emit on a blocked dispatcher is a no-op (no subscriber invoked,
   nothing pruned, list and current emitter unchanged); block changes only
   the suppression flag; connect, disconnect, membership and length do the
   same blocked or not; and so a subscription connected while the dispatcher
   was blocked is invoked by the first emit after it is unblocked. *)
C25_BlockedEmitIsNoOp ==
    [][/\ BlockedEmitIsNoOp
       /\ BlockChangesFlagOnly
       /\ ListCallsIgnoreFlag
       /\ FirstEmitReaches]_vars

-----------------------------------------------------------------------------
(* Termination of emit *)

(* C26: every call of emit returns after finitely many callback
   invocations, provided each invocation returns and no callback calls emit,
   also when the callbacks call connect on the emitting dispatcher during
   the pass: a pass that has begun is eventually left. *)
C26_EmitReturns ==
    (walk.at = "iter") ~> (walk.at \in {"returned", "raised"})

-----------------------------------------------------------------------------
(* A pass ended by an exception *)

(* The step that lets the exception out of emit leaves the list as it was
   when the callback raised. *)
RaiseRemovesNothing ==
    last'.op = "emit" /\ last'.result = "raised" =>
        /\ slots' = slots
        /\ __len__(slots'[last'.d]) = __len__(last'.before)

(* No pass invokes a subscription whose receiver was gone when it started. *)
DeadNeverInvoked ==
    \A pass \in Passes' :
        \A k \in DeadAtStart(pass) : TimesInvoked(pass, pass.start[k].id) = 0

(* An emit call has returned: the dead subscriptions that an earlier pass,
   ended by an exception, had met and left in the list, and that were in the
   list when this call began, are no longer in it. *)
NextPassPrunes ==
    /\ last'.op = "emit" /\ last'.result = "ok"
    /\ Len(stack') < Len(stack)
    => \A o \in seen.owed :
           o.depth = Len(stack) => o.id \notin Ids(slots'[last'.d])

(* C27: when a callback raises during an emit pass the pass removes nothing:
   after the exception the list is the list as it stood when the callback
   raised, the dead subscriptions met earlier in the pass included (length
   unchanged); these are never invoked, and the next emit pass that runs to
   completion removes them. *)
C27_RaisingPassRemovesNothing ==
    [][/\ RaiseRemovesNothing
       /\ DeadNeverInvoked
       /\ NextPassPrunes]_vars

====
